---- MODULE Spec2Model ----
(***************************************************************************)
(* Moving-average accumulator (MAData), MACD indicator and the signal      *)
(* evaluators of src/src/ma.rs.                                            *)
(*                                                                         *)
(* f64 values are modelled as binary floating-point numbers m * 2^e with a *)
(* significand of MantBits bits (f64 has 53) and an unbounded exponent;    *)
(* every arithmetic operation is correctly rounded, round-to-nearest,      *)
(* ties-to-even, as IEEE 754 prescribes.  NaN, infinities and overflow are *)
(* outside the model (prices are finite and small).                        *)
(***************************************************************************)
EXTENDS Integers, Sequences, FiniteSets, TLC

\* Number of significand bits of the modelled floating-point format.
MantBits == 12

(***************************************************************************)
(* Floating-point arithmetic.                                              *)
(***************************************************************************)
Abs(x) == IF x < 0 THEN -x ELSE x

Sgn(x) == IF x < 0 THEN -1 ELSE 1

RECURSIVE BitLen(_)
BitLen(n) == IF n = 0 THEN 0 ELSE 1 + BitLen(n \div 2)

\* The canonical representation: odd significand, or zero.
RECURSIVE Norm(_, _)
Norm(m, e) ==
    IF m = 0 THEN [m |-> 0, e |-> 0]
    ELSE IF Abs(m) % 2 = 0 THEN Norm(Sgn(m) * (Abs(m) \div 2), e + 1)
    ELSE [m |-> m, e |-> e]

\* sgn * M * 2^E rounded to MantBits significant bits, ties to even.
RoundNE(sgn, M, E) ==
    LET bits == BitLen(M) IN
    IF bits <= MantBits THEN Norm(sgn * M, E)
    ELSE LET sh   == bits - MantBits
             q    == M \div (2 ^ sh)
             r    == M % (2 ^ sh)
             half == 2 ^ (sh - 1)
             up   == r > half \/ (r = half /\ q % 2 = 1)
         IN  Norm(sgn * (IF up THEN q + 1 ELSE q), E + sh)

\* An integer as f64 (u16 as f64, integer literals).
FromInt(n) == RoundNE(Sgn(n), Abs(n), 0)

\* Position of the leading bit: |x| < 2^Top(x).
Top(x) == x.e + BitLen(Abs(x.m))

FNeg(x) == [m |-> -x.m, e |-> x.e]

FAdd(a, b) ==
    IF a.m = 0 THEN b
    ELSE IF b.m = 0 THEN a
    ELSE IF Top(a) - Top(b) > MantBits + 2 THEN a
    ELSE IF Top(b) - Top(a) > MantBits + 2 THEN b
    ELSE LET e == IF a.e < b.e THEN a.e ELSE b.e
             s == a.m * (2 ^ (a.e - e)) + b.m * (2 ^ (b.e - e))
         IN  RoundNE(Sgn(s), Abs(s), e)

FSub(a, b) == FAdd(a, FNeg(b))

FMul(a, b) == RoundNE(Sgn(a.m) * Sgn(b.m), Abs(a.m) * Abs(b.m), a.e + b.e)

FDiv(a, b) ==
    IF a.m = 0 THEN a
    ELSE LET sa  == MantBits - BitLen(Abs(a.m))
             sb  == MantBits - BitLen(Abs(b.m))
             na  == Abs(a.m) * (2 ^ sa) * (2 ^ (MantBits + 1))
             nb  == Abs(b.m) * (2 ^ sb)
             q   == na \div nb
             st  == IF na % nb = 0 THEN 0 ELSE 1
         IN  RoundNE(Sgn(a.m) * Sgn(b.m), 2 * q + st,
                     (a.e - sa) - (b.e - sb) - (MantBits + 1) - 1)

FLt(a, b) ==
    IF a.m <= 0 /\ b.m > 0 THEN a.m # b.m
    ELSE IF a.m < 0 /\ b.m = 0 THEN TRUE
    ELSE IF a.m >= 0 /\ b.m <= 0 THEN FALSE
    ELSE IF Top(a) # Top(b)
         THEN (IF a.m > 0 THEN Top(a) < Top(b) ELSE Top(a) > Top(b))
    ELSE LET e == IF a.e < b.e THEN a.e ELSE b.e
         IN  a.m * (2 ^ (a.e - e)) < b.m * (2 ^ (b.e - e))

FGt(a, b) == FLt(b, a)

\* f64::floor: the largest integer not above x.
FFloor(x) ==
    IF x.e >= 0 THEN x
    ELSE IF Top(x) <= 0 THEN (IF x.m < 0 THEN FromInt(-1) ELSE FromInt(0))
    ELSE LET d == 2 ^ (-x.e)
             q == Abs(x.m) \div d
         IN  IF x.m > 0 THEN FromInt(q) ELSE FromInt(-(q + 1))

(***************************************************************************)
(* Option<f64>: None is the empty sequence, Some(v) the one-element one.   *)
(***************************************************************************)
None == <<>>

Some(v) == <<v>>

IsSome(o) == o # None

Unwrap(o) == o[1]

(***************************************************************************)
(* enum PositionType (crate::position): the directional classification.    *)
(***************************************************************************)
Long == "Long"

Short == "Short"

PositionNone == "None"

VARIABLES
    ma,                     \* the MAData under test
    fed,                    \* close prices passed to compute so far, oldest first
    mode,                   \* the ema flag of the most recent compute call on ma
    modes,                  \* the set of ema flags passed to ma's compute so far
    fast_ma_data,           \* MarketDataTracker.fast_ma_data
    slow_ma_data,           \* MarketDataTracker.slow_ma_data
    macd,                   \* MarketDataTracker.macd
    macd_signal,            \* MarketDataTracker.macd_signal
    ma_cross_signal,        \* MarketDataTracker.ma_cross_signal
    ma_trend_change_signal, \* MarketDataTracker.ma_trend_change_signal
    dps,                    \* TradingPair.get_price_dps()
    op,                     \* the operation performed last
    ret,                    \* the PositionType returned by the last evaluator call
    notified,               \* whether that call logged a change of direction
    hist,                   \* per pipeline tick, what each evaluator yielded
    panicked                \* whether an Option::unwrap of None has panicked

accVars == <<ma, mode, modes>>

indVars == <<fast_ma_data, slow_ma_data, macd>>

sigVars == <<macd_signal, ma_cross_signal, ma_trend_change_signal>>

callVars == <<op, ret, notified, hist, panicked>>

vars == <<accVars, fed, indVars, sigVars, dps, callVars>>

(***************************************************************************)
(* struct MAData and its methods.                                          *)
(***************************************************************************)
MADataNew(num_candles) ==
    [acc                     |-> <<>>,
     latest                  |-> None,
     penultimate             |-> None,
     penultimate_penultimate |-> None,
     num_candles             |-> num_candles]

\* Mutation of PopBack: the eviction is forgotten.
PopBack_Keep(q) == q

\* Mutation of PopBack: the newest entry is evicted instead of the oldest.
PopBack_Newest(q) == IF Len(q) = 0 THEN q ELSE Tail(q)

\* VecDeque::pop_back: removes the last element, does nothing when empty.
PopBack(q) == IF Len(q) = 0 THEN q ELSE SubSeq(q, 1, Len(q) - 1)

\* VecDeque::push_front.
PushFront(q, v) == <<v>> \o q

\* Mutation of MAUpdate: the older values are not moved along.
MAUpdate_NoShift(d, new_ma) == [d EXCEPT !.latest = Some(new_ma)]

\* Mutation of MAUpdate: penultimate is overwritten before it is copied.
MAUpdate_Overwritten(d, new_ma) ==
    [d EXCEPT !.penultimate_penultimate = d.latest,
              !.penultimate             = d.latest,
              !.latest                  = Some(new_ma)]

\* fn update: set the new moving average value, pushing the history back.
MAUpdate(d, new_ma) ==
    [d EXCEPT !.penultimate_penultimate = d.penultimate,
              !.penultimate             = d.latest,
              !.latest                  = Some(new_ma)]

\* acc_val = 0.0; for cp in acc.iter() { acc_val += cp }
RECURSIVE AccSum(_, _, _)
AccSum(acc, i, acc_val) ==
    IF i > Len(acc) THEN acc_val
    ELSE AccSum(acc, i + 1, FAdd(acc_val, acc[i]))

\* Mutation of WindowFull: the window counts as full one price early.
WindowFull_OneEarly(d) == Len(d.acc) + 1 = d.num_candles

\* self.acc.len() == self.num_candles as usize
WindowFull(d) == Len(d.acc) = d.num_candles

\* let new_ma = acc_val / self.num_candles as f64
SimpleMean(d) == FDiv(AccSum(d.acc, 1, FromInt(0)), FromInt(d.num_candles))

\* Mutation of EmaWeight: the weight 2 / N.
EmaWeight_NoPlusOne(num_candles) == FDiv(FromInt(2), FromInt(num_candles))

\* let weight = 2.0 / (self.num_candles as f64 + 1.0)
EmaWeight(num_candles) ==
    FDiv(FromInt(2), FAdd(FromInt(num_candles), FromInt(1)))

\* Mutation of PrevEma: a missing previous ema is taken to be 0.0.
PrevEma_Zero(d, new_ma) == IF IsSome(d.latest) THEN Unwrap(d.latest) ELSE FromInt(0)

\* The previous ema, or the current sma when there is none yet.
PrevEma(d, new_ma) == IF IsSome(d.latest) THEN Unwrap(d.latest) ELSE new_ma

\* (close_price * weight) + (prev_ema * (1.0 - weight))
EmaValue(close_price, prev_ema, weight) ==
    FAdd(FMul(close_price, weight), FMul(prev_ema, FSub(FromInt(1), weight)))

MACompute(d, close_price, ema) ==
    LET kept == IF WindowFull(d) THEN PopBack(d.acc) ELSE d.acc
        d1   == [d EXCEPT !.acc = PushFront(kept, close_price)]
    IN  IF WindowFull(d1)
        THEN LET new_ma == SimpleMean(d1)
             IN  IF ema
                 THEN MAUpdate(d1, EmaValue(close_price, PrevEma(d1, new_ma),
                                            EmaWeight(d1.num_candles)))
                 ELSE MAUpdate(d1, new_ma)
        ELSE d1

(***************************************************************************)
(* struct MACD and its methods.                                            *)
(***************************************************************************)
Ema12Candles == 12

Ema26Candles == 26

SignalCandles == 9

\* Mutation of MACDNew: the signal accumulator's window is one longer.
MACDNew_LongSignal ==
    [ema12         |-> MADataNew(Ema12Candles),
     ema26         |-> MADataNew(Ema26Candles),
     signal        |-> MADataNew(SignalCandles + 1),
     macd_latest   |-> None,
     macd_previous |-> None]

\* Mutation of MACDNew: the fast accumulator's window exceeds the slow one's.
MACDNew_SlowFast ==
    [ema12         |-> MADataNew(Ema26Candles + 1),
     ema26         |-> MADataNew(Ema26Candles),
     signal        |-> MADataNew(SignalCandles),
     macd_latest   |-> None,
     macd_previous |-> None]

MACDNew ==
    [ema12         |-> MADataNew(Ema12Candles),
     ema26         |-> MADataNew(Ema26Candles),
     signal        |-> MADataNew(SignalCandles),
     macd_latest   |-> None,
     macd_previous |-> None]

\* Mutation of MacdReady: the slow average's previous value is tested.
MacdReady_Penultimate(m) == IsSome(m.ema26.penultimate)

\* if self.ema26.latest().is_some()
MacdReady(m) == IsSome(m.ema26.latest)

\* Mutation of MacdValue: the operands of the subtraction are exchanged.
MacdValue_Reversed(m) == FSub(Unwrap(m.ema26.latest), Unwrap(m.ema12.latest))

\* self.ema12.latest().unwrap() - self.ema26.latest().unwrap()
MacdValue(m) == FSub(Unwrap(m.ema12.latest), Unwrap(m.ema26.latest))

\* The two accumulators of the MACD line after taking the price.
MACDFeed(m, close_price) ==
    [m EXCEPT !.ema12 = MACompute(m.ema12, close_price, TRUE),
              !.ema26 = MACompute(m.ema26, close_price, TRUE)]

\* MACD::compute panics: an unwrap of the MACD line's operands meets None.
MACDPanics(m, close_price) ==
    LET m1 == MACDFeed(m, close_price)
    IN  MacdReady(m1) /\ (m1.ema12.latest = None \/ m1.ema26.latest = None)

\* MACD::compute; when it panics the fields written so far stay written.
MACDCompute(m, close_price) ==
    LET m1 == MACDFeed(m, close_price)
    IN  IF MACDPanics(m, close_price)
        THEN IF IsSome(m1.macd_latest)
             THEN [m1 EXCEPT !.macd_previous = m1.macd_latest]
             ELSE m1
        ELSE IF MacdReady(m1)
        THEN LET m2   == IF IsSome(m1.macd_latest)
                         THEN [m1 EXCEPT !.macd_previous = m1.macd_latest]
                         ELSE m1
                 value == MacdValue(m2)
             IN  [m2 EXCEPT !.macd_latest = Some(value),
                            !.signal = MACompute(m2.signal, value, TRUE)]
        ELSE m1

(***************************************************************************)
(* math::round::floor(value, scale): value rounded down to scale decimal   *)
(* places, (value * 10^scale).floor() / 10^scale in f64 arithmetic.        *)
(***************************************************************************)
RoundFloor(value, scale) ==
    LET multiplier == FromInt(10 ^ scale)
    IN  FDiv(FFloor(FMul(value, multiplier)), multiplier)

(***************************************************************************)
(* The signal evaluators.  Each yields the PositionType it returns (ret),  *)
(* the value its debounce field has afterwards (signal) and whether it     *)
(* logged a change of direction with info! (notified).                     *)
(***************************************************************************)
\* Mutation of Detected: the direction is withheld when it is the recorded one.
Detected_Gated(direction, recorded) ==
    IF recorded = direction
    THEN [ret |-> "None", signal |-> recorded, notified |-> FALSE]
    ELSE [ret |-> direction, signal |-> direction, notified |-> TRUE]

\* Mutation of Detected: the change is logged but the direction not recorded.
Detected_NoRecord(direction, recorded) ==
    [ret |-> direction, signal |-> recorded, notified |-> recorded # direction]

\* Mutation of Detected: the change is logged whatever direction is recorded.
Detected_AlwaysNotify(direction, recorded) ==
    [ret |-> direction, signal |-> direction, notified |-> TRUE]

\* A direction was detected: log and record it unless it is the recorded one.
Detected(direction, recorded) ==
    [ret |-> direction, signal |-> direction, notified |-> recorded # direction]

\* Mutation of NoSignal: the recorded direction is cleared.
NoSignal_Reset(recorded) ==
    [ret |-> "None", signal |-> "None", notified |-> FALSE]

\* return PositionType::None
NoSignal(recorded) ==
    [ret |-> PositionNone, signal |-> recorded, notified |-> FALSE]

\* Mutation of MacdLong: the comparisons are not strict.
MacdLong_NotStrict(macd_v, macd_prev, signal) ==
    ~FLt(macd_v, signal) /\ ~FGt(macd_prev, signal)

\* macd > signal && macd_prev < signal
MacdLong(macd_v, macd_prev, signal) ==
    FGt(macd_v, signal) /\ FLt(macd_prev, signal)

\* macd < signal && macd_prev > signal
MacdShort(macd_v, macd_prev, signal) ==
    FLt(macd_v, signal) /\ FGt(macd_prev, signal)

\* The values trading_decision_macd needs are all there.
MacdHasData(m) ==
    IsSome(m.macd_latest) /\ IsSome(m.signal.latest) /\ IsSome(m.macd_previous)

trading_decision_macd(m, recorded) ==
    IF MacdHasData(m)
    THEN LET signal    == Unwrap(m.signal.latest)
             macd_prev == Unwrap(m.macd_previous)
             macd_v    == Unwrap(m.macd_latest)
         IN  IF MacdLong(macd_v, macd_prev, signal)
             THEN Detected(Long, recorded)
             ELSE IF MacdShort(macd_v, macd_prev, signal)
             THEN Detected(Short, recorded)
             ELSE NoSignal(recorded)
    ELSE NoSignal(recorded)

\* c > p && p < pp
TrendLong(c, p, pp) == FGt(c, p) /\ FLt(p, pp)

\* c < p && p > pp
TrendShort(c, p, pp) == FLt(c, p) /\ FGt(p, pp)

\* The values trading_decision_ma_trend_change needs are all there.
TrendHasData(fast, slow) ==
    ~(\/ slow.latest = None
      \/ fast.latest = None
      \/ fast.penultimate = None
      \/ fast.penultimate_penultimate = None)

\* Mutation of TrendValues: c is the fast average's latest value.
TrendValues_FastLatest(fast, slow) ==
    [c  |-> Unwrap(fast.latest),
     p  |-> Unwrap(fast.penultimate),
     pp |-> Unwrap(fast.penultimate_penultimate)]

\* let c = slow latest, p = fast penultimate, pp = fast penultimate_penultimate
TrendValues(fast, slow) ==
    [c  |-> Unwrap(slow.latest),
     p  |-> Unwrap(fast.penultimate),
     pp |-> Unwrap(fast.penultimate_penultimate)]

trading_decision_ma_trend_change(fast, slow, recorded) ==
    IF ~TrendHasData(fast, slow)
    THEN NoSignal(recorded)
    ELSE LET v == TrendValues(fast, slow)
         IN  IF TrendLong(v.c, v.p, v.pp)
             THEN Detected(Long, recorded)
             ELSE IF TrendShort(v.c, v.p, v.pp)
             THEN Detected(Short, recorded)
             ELSE NoSignal(recorded)

\* f_ma_latest_val > s_ma_latest_val && f_ma_prev_val < s_ma_latest_val
CrossLong(f_ma_latest_val, f_ma_prev_val, s_ma_latest_val) ==
    FGt(f_ma_latest_val, s_ma_latest_val) /\ FLt(f_ma_prev_val, s_ma_latest_val)

\* f_ma_latest_val < s_ma_latest_val && f_ma_prev_val > s_ma_latest_val
CrossShort(f_ma_latest_val, f_ma_prev_val, s_ma_latest_val) ==
    FLt(f_ma_latest_val, s_ma_latest_val) /\ FGt(f_ma_prev_val, s_ma_latest_val)

\* The values trading_decision_ma_cross needs are all there.
CrossHasData(fast, slow) ==
    IsSome(fast.latest) /\ IsSome(slow.latest) /\ IsSome(fast.penultimate)

\* Mutation of CrossValues: the values are compared as they are.
CrossValues_Unfloored(price_dps, fast, slow) ==
    [f_ma_latest_val |-> Unwrap(fast.latest),
     f_ma_prev_val   |-> Unwrap(fast.penultimate),
     s_ma_latest_val |-> Unwrap(slow.latest)]

\* The three values compared, floored to the price precision.
CrossValues(price_dps, fast, slow) ==
    [f_ma_latest_val |-> RoundFloor(Unwrap(fast.latest), price_dps),
     f_ma_prev_val   |-> RoundFloor(Unwrap(fast.penultimate), price_dps),
     s_ma_latest_val |-> RoundFloor(Unwrap(slow.latest), price_dps)]

trading_decision_ma_cross(price_dps, fast, slow, recorded) ==
    IF CrossHasData(fast, slow)
    THEN LET v == CrossValues(price_dps, fast, slow)
         IN  IF CrossLong(v.f_ma_latest_val, v.f_ma_prev_val, v.s_ma_latest_val)
             THEN Detected(Long, recorded)
             ELSE IF CrossShort(v.f_ma_latest_val, v.f_ma_prev_val,
                                v.s_ma_latest_val)
             THEN Detected(Short, recorded)
             ELSE NoSignal(recorded)
    ELSE NoSignal(recorded)

(***************************************************************************)
(* Bounds.                                                                 *)
(***************************************************************************)
\* Largest window size num_candles given to MAData::new.
MaxWindow == 3

\* Number of compute calls made on the accumulator under test.
MaxTicks == 5

\* Close prices fed to the accumulator under test.
Prices == {FromInt(10), FromInt(20), FromInt(30), FromInt(40)}

\* Constant streams: window sizes 1..MaxConstWindow, MaxConstTicks calls,
\* constants 1/4, 2/4, ..., MaxConstQuarters/4.
MaxConstWindow == 12

MaxConstTicks == 18

MaxConstQuarters == 160

ConstPrices == {Norm(n, -2) : n \in 1..MaxConstQuarters}

\* The MACD indicator: MaxMacdTicks calls of compute on a stream of prices
\* from MacdPrices that changes its value at most MaxSwitches times.
MaxMacdTicks == 37

MaxSwitches == 1

MacdPrices == {FromInt(16), FromInt(32)}

\* The tracker: MaxTrackTicks ticks with prices from TrackPrices (9.996 and
\* 10.004 as the format rounds them, and 20, 30), the fast and slow window
\* sizes from TrackWindows and the price precision from DpsValues.
MaxTrackTicks == 4

TrackWindows == {<<1, 2>>, <<2, 3>>}

DpsValues == {0, 2}

TrackPrices ==
    {FDiv(FromInt(9996), FromInt(1000)), FDiv(FromInt(10004), FromInt(1000)),
     FromInt(20), FromInt(30)}

\* The trend evaluator: MaxTrendTicks ticks with prices from TrendPrices.
MaxTrendTicks == 4

TrendPrices == {FromInt(3), FromInt(5), FromInt(9)}

\* The pipeline: MaxPipeTicks ticks, the first HoldTicks of them at HoldPrice
\* and the later ones with prices from PipePrices.
MaxPipeTicks == 37

HoldTicks == 33

HoldPrice == FromInt(16)

PipePrices == {FromInt(16), FromInt(17), FromInt(20), FromInt(32)}

\* The tracker with separate evaluator calls: MaxCallTicks ticks, held and
\* priced as in the pipeline.
MaxCallTicks == 36

RECURSIVE Switches(_)
Switches(s) ==
    IF Len(s) < 2 THEN 0
    ELSE Switches(Tail(s)) + (IF s[1] # s[2] THEN 1 ELSE 0)

(***************************************************************************)
(* Initial states.                                                         *)
(***************************************************************************)
\* A MarketDataTracker as constructed: fresh accumulators and indicator, no
\* direction recorded.
TrackerNew(fast_candles, slow_candles, price_dps) ==
    /\ fast_ma_data = MADataNew(fast_candles)
    /\ slow_ma_data = MADataNew(slow_candles)
    /\ macd = MACDNew
    /\ macd_signal = PositionNone
    /\ ma_cross_signal = PositionNone
    /\ ma_trend_change_signal = PositionNone
    /\ dps = price_dps

NoCalls ==
    /\ fed = <<>>
    /\ mode = FALSE
    /\ modes = {}
    /\ op = "new"
    /\ ret = PositionNone
    /\ notified = FALSE
    /\ hist = <<>>
    /\ panicked = FALSE

(***************************************************************************)
(* Spec: one accumulator, constructed with any window size and fed any     *)
(* prices in any mix of modes.                                             *)
(***************************************************************************)
Init ==
    /\ \E n \in 0..MaxWindow : ma = MADataNew(n)
    /\ TrackerNew(1, 1, 0)
    /\ NoCalls

Compute ==
    /\ Len(fed) < MaxTicks
    /\ \E close_price \in Prices, ema \in BOOLEAN :
          /\ ma' = MACompute(ma, close_price, ema)
          /\ fed' = Append(fed, close_price)
          /\ mode' = ema
          /\ modes' = modes \cup {ema}
    /\ op' = "compute"
    /\ hist' = hist
    /\ UNCHANGED <<indVars, sigVars, dps, ret, notified, panicked>>

Next == Compute

Spec == Init /\ [][Next]_vars

(***************************************************************************)
(* SpecConstant: one accumulator fed a constant price in exponential mode. *)
(***************************************************************************)
InitConstant ==
    /\ \E n \in 1..MaxConstWindow : ma = MADataNew(n)
    /\ TrackerNew(1, 1, 0)
    /\ NoCalls

ComputeConstant ==
    /\ Len(fed) < MaxConstTicks
    /\ \E close_price \in (IF Len(fed) = 0 THEN ConstPrices ELSE {fed[1]}) :
          /\ ma' = MACompute(ma, close_price, TRUE)
          /\ fed' = Append(fed, close_price)
    /\ mode' = TRUE
    /\ modes' = {TRUE}
    /\ op' = "compute"
    /\ hist' = hist
    /\ UNCHANGED <<indVars, sigVars, dps, ret, notified, panicked>>

NextConstant == ComputeConstant

SpecConstant == InitConstant /\ [][NextConstant]_vars

(***************************************************************************)
(* SpecMACD: the MACD indicator of a tracker and its evaluator.            *)
(***************************************************************************)
InitMACD ==
    /\ ma = MADataNew(1)
    /\ TrackerNew(1, 1, 0)
    /\ NoCalls

MacdCompute ==
    /\ ~panicked
    /\ Len(fed) < MaxMacdTicks
    /\ \E close_price \in MacdPrices :
          /\ Switches(Append(fed, close_price)) <= MaxSwitches
          /\ macd' = MACDCompute(macd, close_price)
          /\ panicked' = MACDPanics(macd, close_price)
          /\ fed' = Append(fed, close_price)
    /\ op' = "compute"
    /\ hist' = hist
    /\ UNCHANGED <<accVars, fast_ma_data, slow_ma_data, sigVars, dps, ret,
                   notified>>

DecideMacd ==
    LET r == trading_decision_macd(macd, macd_signal)
    IN  /\ ~panicked
        /\ macd_signal' = r.signal
        /\ ret' = r.ret
        /\ notified' = r.notified
        /\ panicked' = panicked
        /\ op' = "macd"
        /\ hist' = hist
        /\ UNCHANGED <<accVars, fed, indVars, ma_cross_signal,
                       ma_trend_change_signal, dps>>

NextMACD == MacdCompute \/ DecideMacd

SpecMACD == InitMACD /\ [][NextMACD]_vars

(***************************************************************************)
(* SpecTracker: a tracker over its first ticks.  Each tick feeds the close *)
(* price to the fast and slow accumulators and to the MACD indicator; the  *)
(* evaluators are called in any order.                                     *)
(***************************************************************************)
InitTracker ==
    /\ ma = MADataNew(1)
    /\ \E w \in TrackWindows, d \in DpsValues : TrackerNew(w[1], w[2], d)
    /\ NoCalls

\* A close price arrives: it is fed to the fast and slow accumulators and
\* to the MACD indicator.
TrackerFeed(close_price) ==
    /\ fast_ma_data' = MACompute(fast_ma_data, close_price, FALSE)
    /\ slow_ma_data' = MACompute(slow_ma_data, close_price, FALSE)
    /\ macd' = MACDCompute(macd, close_price)
    /\ panicked' = MACDPanics(macd, close_price)
    /\ fed' = Append(fed, close_price)

TrackerTick ==
    /\ ~panicked
    /\ Len(fed) < MaxTrackTicks
    /\ \E close_price \in TrackPrices : TrackerFeed(close_price)
    /\ op' = "compute"
    /\ hist' = hist
    /\ UNCHANGED <<accVars, sigVars, dps, ret, notified>>

\* Mutation of DecideCross: the call also writes the trend strategy's field.
DecideCross_WritesTrend ==
    LET r == trading_decision_ma_cross(dps, fast_ma_data, slow_ma_data,
                                       ma_cross_signal)
    IN  /\ ~panicked
        /\ ma_cross_signal' = r.signal
        /\ ma_trend_change_signal' = r.signal
        /\ ret' = r.ret
        /\ notified' = r.notified
        /\ panicked' = panicked
        /\ op' = "cross"
        /\ hist' = hist
        /\ UNCHANGED <<accVars, fed, indVars, macd_signal, dps>>

DecideCross ==
    LET r == trading_decision_ma_cross(dps, fast_ma_data, slow_ma_data,
                                       ma_cross_signal)
    IN  /\ ~panicked
        /\ ma_cross_signal' = r.signal
        /\ ret' = r.ret
        /\ notified' = r.notified
        /\ panicked' = panicked
        /\ op' = "cross"
        /\ hist' = hist
        /\ UNCHANGED <<accVars, fed, indVars, macd_signal,
                       ma_trend_change_signal, dps>>

DecideTrend ==
    LET r == trading_decision_ma_trend_change(fast_ma_data, slow_ma_data,
                                              ma_trend_change_signal)
    IN  /\ ~panicked
        /\ ma_trend_change_signal' = r.signal
        /\ ret' = r.ret
        /\ notified' = r.notified
        /\ panicked' = panicked
        /\ op' = "trend"
        /\ hist' = hist
        /\ UNCHANGED <<accVars, fed, indVars, macd_signal, ma_cross_signal,
                       dps>>

NextTracker == TrackerTick \/ DecideMacd \/ DecideCross \/ DecideTrend

SpecTracker == InitTracker /\ [][NextTracker]_vars

(***************************************************************************)
(* SpecTrend: a tracker over its first ticks with the trend evaluator.     *)
(***************************************************************************)
TrendTick ==
    /\ ~panicked
    /\ Len(fed) < MaxTrendTicks
    /\ \E close_price \in TrendPrices : TrackerFeed(close_price)
    /\ op' = "compute"
    /\ hist' = hist
    /\ UNCHANGED <<accVars, sigVars, dps, ret, notified>>

NextTrend == TrendTick \/ DecideTrend

SpecTrend == InitTracker /\ [][NextTrend]_vars

(***************************************************************************)
(* SpecPipeline: the tick-driven pass of section 5 of the specification.   *)
(* Each price arrival feeds the accumulators and the MACD indicator and    *)
(* then calls each of the three evaluators once.                           *)
(***************************************************************************)
PipelineTick ==
    /\ ~panicked
    /\ Len(fed) < MaxPipeTicks
    /\ \E close_price \in (IF Len(fed) < HoldTicks THEN {HoldPrice}
                           ELSE PipePrices) :
          TrackerFeed(close_price)
    /\ IF panicked'
       THEN UNCHANGED <<sigVars, hist>>
       ELSE LET rm == trading_decision_macd(macd', macd_signal)
                rt == trading_decision_ma_trend_change(
                          fast_ma_data', slow_ma_data', ma_trend_change_signal)
                rc == trading_decision_ma_cross(
                          dps, fast_ma_data', slow_ma_data', ma_cross_signal)
            IN  /\ macd_signal' = rm.signal
                /\ ma_trend_change_signal' = rt.signal
                /\ ma_cross_signal' = rc.signal
                /\ hist' = Append(hist, [macd |-> rm, trend |-> rt, cross |-> rc])
    /\ op' = "pipeline"
    /\ UNCHANGED <<accVars, dps, ret, notified>>

NextPipeline == PipelineTick

SpecPipeline == InitTracker /\ [][NextPipeline]_vars

(***************************************************************************)
(* SpecCalls: a tracker past the warm-up of the MACD indicator, with the   *)
(* three evaluators called separately, any number of times and in any      *)
(* order between two ticks.                                                *)
(***************************************************************************)
CallsTick ==
    /\ ~panicked
    /\ Len(fed) < MaxCallTicks
    /\ \E close_price \in (IF Len(fed) < HoldTicks THEN {HoldPrice}
                           ELSE PipePrices) :
          TrackerFeed(close_price)
    /\ op' = "compute"
    /\ hist' = hist
    /\ UNCHANGED <<accVars, sigVars, dps, ret, notified>>

NextCalls == CallsTick \/ DecideMacd \/ DecideCross \/ DecideTrend

SpecCalls == InitTracker /\ [][NextCalls]_vars

(***************************************************************************)
(* Auxiliary definitions of the properties.                                *)
(***************************************************************************)
\* The exact integer value of a float that holds an integer.
IntVal(x) == x.m * (2 ^ x.e)

RECURSIVE IntSum(_, _, _)
IntSum(s, from, to) ==
    IF from > to THEN 0 ELSE IntVal(s[from]) + IntSum(s, from + 1, to)

\* The arithmetic mean of the n most recent entries of the price log s,
\* computed exactly and rounded once to the floating-point format.
MeanOfLast(s, n) ==
    FDiv(FromInt(IntSum(s, Len(s) - n + 1, Len(s))), FromInt(n))

\* |x - c| <= k units in the last place of c.
WithinUlps(x, c, k) ==
    /\ Sgn(x.m) = Sgn(c.m)
    /\ x.m # 0
    /\ Abs(Top(x) - Top(c)) <= 1
    /\ LET u == Top(c) - MantBits
           e == IF x.e < u THEN (IF x.e < c.e THEN x.e ELSE c.e)
                ELSE (IF u < c.e THEN u ELSE c.e)
       IN  Abs(x.m * (2 ^ (x.e - e)) - c.m * (2 ^ (c.e - e)))
               <= k * (2 ^ (u - e))

Triple(d) == <<d.latest, d.penultimate, d.penultimate_penultimate>>

\* Every call so far was made in exponential mode with the same price.
ConstantEmaStream ==
    /\ Len(fed) >= 1
    /\ \A i \in 1..Len(fed) : fed[i] = fed[1]
    /\ modes = {TRUE}

(***************************************************************************)
(* Properties of the accumulator.                                          *)
(***************************************************************************)
\* C1: for a window size N >= 1 the buffer never holds more than N prices,
\* whatever the calls and their modes.
C1_BufferBounded ==
    ma.num_candles >= 1 => Len(ma.acc) <= ma.num_candles

\* C1 witness: a full buffer has taken further prices, in both modes.
C1_Witness ==
    /\ ma.num_candles >= 1
    /\ Len(fed) >= ma.num_candles + 2
    /\ modes = {TRUE, FALSE}
    /\ Len(ma.acc) = ma.num_candles

\* C2: MAData::new(0) fails, so no accumulator with a zero window exists on
\* which compute is ever called.
C2_ZeroWindowRejected ==
    ~(ma.num_candles = 0 /\ Len(fed) >= 1)

\* C3: after fewer than N calls latest, penultimate and
\* penultimate_penultimate are all empty.
C3_EmptyDuringWarmup ==
    (ma.num_candles >= 1 /\ Len(fed) < ma.num_candles)
        => Triple(ma) = <<None, None, None>>

\* C3 witness: N - 1 >= 1 calls were made.
C3_Witness ==
    /\ ma.num_candles >= 2
    /\ Len(fed) = ma.num_candles - 1
    /\ Triple(ma) = <<None, None, None>>

\* C4: the N-th call and every later one computes an average and shifts the
\* history once, no earlier call touches it; latest is defined after k calls
\* iff k >= N.
C4_AverageFromNthCall ==
    [][ma.num_candles >= 1 =>
          /\ IsSome(ma'.latest) <=> Len(fed') >= ma.num_candles
          /\ Len(fed') >= ma.num_candles =>
                /\ ma'.penultimate = ma.latest
                /\ ma'.penultimate_penultimate = ma.penultimate
          /\ Len(fed') < ma.num_candles => Triple(ma') = Triple(ma)]_vars

\* C4 witness: calls N and N + 1 have both produced an average.
C4_Witness ==
    /\ ma.num_candles >= 2
    /\ Len(fed) = ma.num_candles + 1
    /\ IsSome(ma.latest)
    /\ IsSome(ma.penultimate)
    /\ ma.penultimate_penultimate = None

\* C5: after a simple-mode call with at least N prices fed, latest is the
\* arithmetic mean of the N most recently fed prices.
C5_SimpleMean ==
    (ma.num_candles >= 1 /\ Len(fed) >= ma.num_candles /\ ~mode)
        => ma.latest = Some(MeanOfLast(fed, ma.num_candles))

\* C5 witness: N = 3, feed 10, 20, 30, 40 in simple mode: 20, then 30.
C5_Witness ==
    /\ ma.num_candles = 3
    /\ fed = <<FromInt(10), FromInt(20), FromInt(30), FromInt(40)>>
    /\ modes = {FALSE}
    /\ ma.penultimate = Some(FromInt(20))
    /\ ma.latest = Some(FromInt(30))

\* C6: an exponential-mode call that computes an average sets latest to
\* price * a + prev * (1 - a), a = 2 / (N + 1), prev being the latest value
\* before the call or, when there is none, the simple mean of the N prices
\* then in the buffer.
C6_ExponentialStep ==
    [][(ma.num_candles >= 1 /\ Len(fed') >= ma.num_candles /\ mode') =>
          LET N     == ma.num_candles
              price == fed'[Len(fed')]
              a     == FDiv(FromInt(2), FromInt(N + 1))
              prev  == IF IsSome(ma.latest) THEN Unwrap(ma.latest)
                       ELSE MeanOfLast(fed', N)
          IN  ma'.latest =
                 Some(FAdd(FMul(price, a), FMul(prev, FSub(FromInt(1), a))))
       ]_vars

\* C6 witness: exponential averages seeded from the simple mean and then
\* continued from the previous value, over changing prices.
C6_Witness ==
    /\ ma.num_candles >= 2
    /\ modes = {TRUE}
    /\ Len(fed) >= ma.num_candles + 1
    /\ fed[Len(fed)] # fed[Len(fed) - 1]
    /\ IsSome(ma.penultimate)
    /\ ma.latest # ma.penultimate

\* C7 (as claimed): on a constant stream c in exponential mode every defined
\* latest equals c exactly.
C7_ConstantExact ==
    (ma.num_candles >= 1 /\ ConstantEmaStream /\ IsSome(ma.latest))
        => ma.latest = Some(fed[1])

\* C7 (as amended): on a constant stream c in exponential mode every defined
\* latest equals c up to floating-point rounding: it is within
\* 2 * (N + 1) units in the last place of c.
C7_ConstantWithinTolerance ==
    (ma.num_candles >= 1 /\ ConstantEmaStream /\ IsSome(ma.latest))
        => WithinUlps(Unwrap(ma.latest), fed[1], 2 * (ma.num_candles + 1))

\* C7 witness: a constant exponential stream past its warm-up whose average
\* is off the constant by rounding, and stays within the tolerance.
C7_Witness ==
    /\ ma.num_candles >= 2
    /\ ConstantEmaStream
    /\ Len(fed) >= ma.num_candles + 2
    /\ IsSome(ma.latest)
    /\ ma.latest # Some(fed[1])
    /\ WithinUlps(Unwrap(ma.latest), fed[1], 2 * (ma.num_candles + 1))

(***************************************************************************)
(* Properties of the MACD indicator and of the evaluators.                 *)
(***************************************************************************)
\* C8: macd_latest is defined exactly when the slow (26-period) average is,
\* and is empty after fewer than 26 ticks.
C8_MacdDefinedWithSlow ==
    /\ IsSome(macd.macd_latest) <=> IsSome(macd.ema26.latest)
    /\ Len(fed) < 26 => macd.macd_latest = None

\* C8 witness: the 26th tick has just defined both.
C8_Witness ==
    /\ Len(fed) = 26
    /\ op = "compute"
    /\ IsSome(macd.ema26.latest)
    /\ IsSome(macd.macd_latest)

\* C9: with macd_latest, macd_previous and signal.latest defined, the MACD
\* evaluator returns Long iff macd_latest > signal and macd_previous <
\* signal, Short iff macd_latest < signal and macd_previous > signal, and
\* No-signal in every other case.
C9_MacdClassification ==
    (/\ op = "macd"
     /\ IsSome(macd.macd_latest)
     /\ IsSome(macd.macd_previous)
     /\ IsSome(macd.signal.latest))
        => LET l    == Unwrap(macd.macd_latest)
               p    == Unwrap(macd.macd_previous)
               s    == Unwrap(macd.signal.latest)
               up   == FGt(l, s) /\ FLt(p, s)
               down == FLt(l, s) /\ FGt(p, s)
           IN  /\ ret = Long <=> up
               /\ ret = Short <=> down
               /\ ret = PositionNone <=> ~up /\ ~down

\* C9 witness: an upward cross was classified Long on an earlier tick and
\* the call on the current, fully defined, state returns No-signal.
C9_Witness ==
    /\ op = "macd"
    /\ MacdHasData(macd)
    /\ macd_signal = Long
    /\ ret = PositionNone

\* C10: with fast.latest, fast.penultimate and slow.latest defined, the
\* crossover evaluator compares the three values floored to the price
\* precision: Long iff fast_latest > slow_latest and fast_penultimate <
\* slow_latest, Short for the mirrored condition, else No-signal; values that
\* floor to the same number register no cross.
C10_CrossClassification ==
    (/\ op = "cross"
     /\ IsSome(fast_ma_data.latest)
     /\ IsSome(fast_ma_data.penultimate)
     /\ IsSome(slow_ma_data.latest))
        => LET f    == RoundFloor(Unwrap(fast_ma_data.latest), dps)
               p    == RoundFloor(Unwrap(fast_ma_data.penultimate), dps)
               s    == RoundFloor(Unwrap(slow_ma_data.latest), dps)
               up   == FGt(f, s) /\ FLt(p, s)
               down == FLt(f, s) /\ FGt(p, s)
           IN  /\ ret = Long <=> up
               /\ ret = Short <=> down
               /\ ret = PositionNone <=> ~up /\ ~down
               /\ f = s => ret = PositionNone

\* C10 witness: precision 2, fast_latest 10.004 above slow_latest 10.00 with
\* fast_penultimate below it; both floor to 10.00 and the call returns
\* No-signal.
C10_Witness ==
    /\ op = "cross"
    /\ dps = 2
    /\ fast_ma_data.latest = Some(FDiv(FromInt(10004), FromInt(1000)))
    /\ slow_ma_data.latest = Some(FromInt(10))
    /\ IsSome(fast_ma_data.penultimate)
    /\ FLt(Unwrap(fast_ma_data.penultimate), FromInt(10))
    /\ RoundFloor(Unwrap(fast_ma_data.latest), dps) = FromInt(10)
    /\ ret = PositionNone

Evaluators == {"macd", "trend", "cross"}

Directions == {Long, Short}

\* The direction the evaluator e had recorded before pipeline tick i.
RecordedBefore(e, i) == IF i = 1 THEN PositionNone ELSE hist[i - 1][e].signal

\* The classification of the current indicator state by each evaluator's
\* directional conditions.
Condition(e) ==
    IF e = "macd"
    THEN IF ~(IsSome(macd.macd_latest) /\ IsSome(macd.macd_previous)
              /\ IsSome(macd.signal.latest))
         THEN PositionNone
         ELSE LET l == Unwrap(macd.macd_latest)
                  p == Unwrap(macd.macd_previous)
                  g == Unwrap(macd.signal.latest)
              IN  IF FGt(l, g) /\ FLt(p, g) THEN Long
                  ELSE IF FLt(l, g) /\ FGt(p, g) THEN Short
                  ELSE PositionNone
    ELSE IF e = "trend"
    THEN IF ~(IsSome(slow_ma_data.latest) /\ IsSome(fast_ma_data.latest)
              /\ IsSome(fast_ma_data.penultimate)
              /\ IsSome(fast_ma_data.penultimate_penultimate))
         THEN PositionNone
         ELSE LET c  == Unwrap(slow_ma_data.latest)
                  p  == Unwrap(fast_ma_data.penultimate)
                  pp == Unwrap(fast_ma_data.penultimate_penultimate)
              IN  IF FGt(c, p) /\ FLt(p, pp) THEN Long
                  ELSE IF FLt(c, p) /\ FGt(p, pp) THEN Short
                  ELSE PositionNone
    ELSE IF ~(IsSome(fast_ma_data.latest) /\ IsSome(slow_ma_data.latest)
              /\ IsSome(fast_ma_data.penultimate))
         THEN PositionNone
         ELSE LET f == RoundFloor(Unwrap(fast_ma_data.latest), dps)
                  p == RoundFloor(Unwrap(fast_ma_data.penultimate), dps)
                  g == RoundFloor(Unwrap(slow_ma_data.latest), dps)
              IN  IF FGt(f, g) /\ FLt(p, g) THEN Long
                  ELSE IF FLt(f, g) /\ FGt(p, g) THEN Short
                  ELSE PositionNone

\* C12: on every tick on which an evaluator's directional condition holds
\* the evaluator returns that direction; within a run of consecutive ticks
\* returning the same direction the change is logged on the first tick only,
\* and there exactly when the direction recorded before differed.
C12_DirectionEveryTickNotifiedOnce ==
    \A e \in Evaluators :
        /\ Len(hist) >= 1 => hist[Len(hist)][e].ret = Condition(e)
        /\ \A i \in 1..Len(hist) :
              hist[i][e].ret \in Directions =>
                 /\ hist[i][e].notified
                       <=> RecordedBefore(e, i) # hist[i][e].ret
                 /\ (i > 1 /\ hist[i - 1][e].ret = hist[i][e].ret)
                       => ~hist[i][e].notified

\* C12 witness: the MACD upward cross holds on three consecutive ticks, Long
\* is returned on all three and the change is logged on the first only.
C12_Witness ==
    \E i \in 1..(Len(hist) - 2) :
        /\ RecordedBefore("macd", i) # Long
        /\ \A j \in i..(i + 2) : hist[j].macd.ret = Long
        /\ hist[i].macd.notified
        /\ ~hist[i + 1].macd.notified
        /\ ~hist[i + 2].macd.notified

Recorded == {PositionNone, Long, Short}

\* C13: whenever a value of an evaluator's precondition is undefined, the
\* evaluator returns No-signal, logs nothing and leaves the recorded
\* direction as it was, whatever direction is recorded.
C13_MissingDataNoSignal ==
    \A r \in Recorded :
        /\ (\/ ~IsSome(macd.macd_latest)
            \/ ~IsSome(macd.signal.latest)
            \/ ~IsSome(macd.macd_previous))
              => trading_decision_macd(macd, r)
                    = [ret |-> PositionNone, signal |-> r, notified |-> FALSE]
        /\ (\/ ~IsSome(slow_ma_data.latest)
            \/ ~IsSome(fast_ma_data.latest)
            \/ ~IsSome(fast_ma_data.penultimate)
            \/ ~IsSome(fast_ma_data.penultimate_penultimate))
              => trading_decision_ma_trend_change(fast_ma_data, slow_ma_data, r)
                    = [ret |-> PositionNone, signal |-> r, notified |-> FALSE]
        /\ (\/ ~IsSome(fast_ma_data.latest)
            \/ ~IsSome(slow_ma_data.latest)
            \/ ~IsSome(fast_ma_data.penultimate))
              => trading_decision_ma_cross(dps, fast_ma_data, slow_ma_data, r)
                    = [ret |-> PositionNone, signal |-> r, notified |-> FALSE]

\* C13 witness: the MACD line has two values but the signal line none yet
\* and the MACD evaluator yielded No-signal without a log entry, as did the
\* other two evaluators on the first tick, when the slow average had no value.
C13_Witness ==
    /\ Len(hist) >= 1
    /\ IsSome(macd.macd_latest)
    /\ IsSome(macd.macd_previous)
    /\ ~IsSome(macd.signal.latest)
    /\ hist[Len(hist)].macd
          = [ret |-> PositionNone, signal |-> PositionNone, notified |-> FALSE]
    /\ slow_ma_data.num_candles > 1
    /\ hist[1].trend
          = [ret |-> PositionNone, signal |-> PositionNone, notified |-> FALSE]
    /\ hist[1].cross
          = [ret |-> PositionNone, signal |-> PositionNone, notified |-> FALSE]

\* C14: the classification returned by each evaluator is the same for every
\* recorded direction, the indicator state and the precision being equal.
C14_DebounceDoesNotGate ==
    \A r1, r2 \in Recorded :
        /\ trading_decision_macd(macd, r1).ret
              = trading_decision_macd(macd, r2).ret
        /\ trading_decision_ma_trend_change(fast_ma_data, slow_ma_data, r1).ret
              = trading_decision_ma_trend_change(fast_ma_data, slow_ma_data, r2).ret
        /\ trading_decision_ma_cross(dps, fast_ma_data, slow_ma_data, r1).ret
              = trading_decision_ma_cross(dps, fast_ma_data, slow_ma_data, r2).ret

\* C14 witness: Long is recorded for the MACD strategy and the MACD
\* evaluator, called on an upward cross, returned Long again without logging.
C14_Witness ==
    /\ Len(hist) >= 2
    /\ hist[Len(hist) - 1].macd.signal = Long
    /\ Condition("macd") = Long
    /\ hist[Len(hist)].macd.ret = Long
    /\ ~hist[Len(hist)].macd.notified
    /\ macd_signal = Long

(***************************************************************************)
(* Properties of the MACD indicator.                                       *)
(***************************************************************************)
\* C15: MACD::compute feeds the price to the fast and the slow accumulator;
\* if the slow accumulator's latest is then defined, macd_previous becomes
\* the prior macd_latest (empty when there was none), macd_latest becomes
\* fast.latest - slow.latest and that value is fed to the signal
\* accumulator; otherwise macd_latest, macd_previous and the signal
\* accumulator are unchanged.
C15_MacdCompute ==
    [][fed' # fed =>
          LET price == fed'[Len(fed')]
              fast  == macd'.ema12
              slow  == macd'.ema26
          IN  /\ fast = MACompute(macd.ema12, price, TRUE)
              /\ slow = MACompute(macd.ema26, price, TRUE)
              /\ IF IsSome(slow.latest)
                 THEN /\ macd'.macd_previous = macd.macd_latest
                      /\ macd'.macd_latest
                            = Some(FSub(Unwrap(fast.latest), Unwrap(slow.latest)))
                      /\ macd'.signal
                            = MACompute(macd.signal, Unwrap(macd'.macd_latest), TRUE)
                 ELSE /\ macd'.macd_previous = macd.macd_previous
                      /\ macd'.macd_latest = macd.macd_latest
                      /\ macd'.signal = macd.signal]_vars

\* C15 witness: tick 26 has produced the first, non-zero MACD value, fed it
\* to the signal accumulator and left macd_previous empty.
C15_Witness ==
    /\ Len(fed) = 26
    /\ op = "compute"
    /\ IsSome(macd.macd_latest)
    /\ macd.macd_latest # Some(FromInt(0))
    /\ macd.macd_previous = None
    /\ macd.signal.acc = <<Unwrap(macd.macd_latest)>>

\* C16: macd_latest is defined from tick 26 on, macd_previous from tick 27
\* on and signal.latest from tick 34 on, and not before; signal.latest
\* defined implies the other two defined; on each of the first 33 ticks the
\* MACD evaluator returns No-signal.
C16_MacdProgression ==
    /\ IsSome(macd.macd_latest) <=> Len(fed) >= 26
    /\ IsSome(macd.macd_previous) <=> Len(fed) >= 27
    /\ IsSome(macd.signal.latest) <=> Len(fed) >= 34
    /\ IsSome(macd.signal.latest)
          => IsSome(macd.macd_latest) /\ IsSome(macd.macd_previous)
    /\ Len(fed) <= 33 =>
          /\ \A r \in Recorded :
                trading_decision_macd(macd, r).ret = PositionNone
          /\ op = "macd" => ret = PositionNone /\ ~notified

\* C16 witness: tick 34 has just defined the signal line from 9 MACD values.
C16_Witness ==
    /\ Len(fed) = 34
    /\ op = "compute"
    /\ Len(macd.signal.acc) = 9
    /\ IsSome(macd.signal.latest)
    /\ ~IsSome(macd.signal.penultimate)

\* C19: MACD::compute never panics: whenever the slow accumulator's latest
\* is defined so is the fast accumulator's, and no next price makes the
\* unwrap of either fail.
C19_MacdComputeNeverPanics ==
    /\ ~panicked
    /\ IsSome(macd.ema26.latest) => IsSome(macd.ema12.latest)
    /\ \A close_price \in MacdPrices : ~MACDPanics(macd, close_price)

\* C19 witness: on tick 26 the slow accumulator has its first value, the
\* fast one has had values since tick 12 and the subtraction went through.
C19_Witness ==
    /\ Len(fed) = 26
    /\ ~panicked
    /\ IsSome(macd.ema26.latest)
    /\ ~IsSome(macd.ema26.penultimate)
    /\ IsSome(macd.ema12.penultimate_penultimate)
    /\ macd.macd_latest
          = Some(FSub(Unwrap(macd.ema12.latest), Unwrap(macd.ema26.latest)))

(***************************************************************************)
(* Properties of the history of averages and of the recorded directions.   *)
(***************************************************************************)
\* The three retained averages are filled from the newest to the oldest.
Chain(d) ==
    /\ IsSome(d.penultimate_penultimate) => IsSome(d.penultimate)
    /\ IsSome(d.penultimate) => IsSome(d.latest)

\* C17: a compute call that produces an average makes penultimate the prior
\* latest and penultimate_penultimate the prior penultimate; a call during
\* warm-up leaves the three values unchanged; in every state
\* penultimate_penultimate defined implies penultimate defined implies
\* latest defined.
C17_HistoryShift ==
    [][/\ IF ma.num_candles >= 1 /\ Len(fed') >= ma.num_candles
          THEN /\ IsSome(ma'.latest)
               /\ ma'.penultimate = ma.latest
               /\ ma'.penultimate_penultimate = ma.penultimate
          ELSE Triple(ma') = Triple(ma)
       /\ Chain(ma)
       /\ Chain(ma')]_vars

\* C17 witness: three averages are retained, all different, and a fourth
\* one has been dropped.
C17_Witness ==
    /\ op = "compute"
    /\ ma.num_candles >= 1
    /\ Len(fed) >= ma.num_candles + 3
    /\ IsSome(ma.penultimate_penultimate)
    /\ ma.latest # ma.penultimate
    /\ ma.penultimate # ma.penultimate_penultimate
    /\ ma.latest # ma.penultimate_penultimate

\* The debounce field of the strategy of evaluator e.
Field(e) ==
    IF e = "macd" THEN macd_signal
    ELSE IF e = "trend" THEN ma_trend_change_signal
    ELSE ma_cross_signal

\* C18: after every evaluator call the debounce field equals the returned
\* direction when that is Long or Short and is unchanged when it is
\* No-signal; it is written, and the change logged, only when the returned
\* direction differs from the recorded one; once Long or Short it is never
\* None again, and a direction recurring after No-signal ticks only is not
\* logged a second time.
C18_DebounceField ==
    \A e \in Evaluators :
        /\ Len(hist) >= 1 => hist[Len(hist)][e].signal = Field(e)
        /\ \A i \in 1..Len(hist) :
              LET r      == hist[i][e]
                  before == RecordedBefore(e, i)
              IN  /\ r.ret \in Directions => r.signal = r.ret
                  /\ r.ret = PositionNone => r.signal = before
                  /\ r.notified <=> r.signal # before
                  /\ r.signal # before => r.ret \in Directions /\ r.ret # before
                  /\ before # PositionNone => r.signal # PositionNone
                  /\ \A j \in 1..(i - 1) :
                        (/\ r.ret \in Directions
                         /\ hist[j][e].ret = r.ret
                         /\ \A k \in (j + 1)..(i - 1) :
                               hist[k][e].ret = PositionNone)
                            => ~r.notified

\* C18 witness: the cross evaluator returned Long, No-signal and Long on
\* three consecutive ticks; the field stayed Long and only the first Long
\* was logged.
C18_Witness ==
    \E i \in 1..(Len(hist) - 2) :
        /\ RecordedBefore("cross", i) = PositionNone
        /\ hist[i].cross
              = [ret |-> Long, signal |-> Long, notified |-> TRUE]
        /\ hist[i + 1].cross
              = [ret |-> PositionNone, signal |-> Long, notified |-> FALSE]
        /\ hist[i + 2].cross
              = [ret |-> Long, signal |-> Long, notified |-> FALSE]

\* C20: an evaluator call leaves the fast and slow accumulators, the MACD
\* indicator and the other two strategies' debounce fields unchanged, so
\* what the other two evaluators yield is the same before and after it.
C20_EvaluatorFrame ==
    [][fed' = fed =>
          /\ op' \in Evaluators
          /\ fast_ma_data' = fast_ma_data
          /\ slow_ma_data' = slow_ma_data
          /\ macd' = macd
          /\ \A e \in Evaluators \ {op'} : Field(e)' = Field(e)
          /\ op' # "macd" =>
                trading_decision_macd(macd', macd_signal')
                   = trading_decision_macd(macd, macd_signal)
          /\ op' # "trend" =>
                trading_decision_ma_trend_change(
                      fast_ma_data', slow_ma_data', ma_trend_change_signal')
                   = trading_decision_ma_trend_change(
                      fast_ma_data, slow_ma_data, ma_trend_change_signal)
          /\ op' # "cross" =>
                trading_decision_ma_cross(
                      dps', fast_ma_data', slow_ma_data', ma_cross_signal')
                   = trading_decision_ma_cross(
                      dps, fast_ma_data, slow_ma_data, ma_cross_signal)]_vars

\* C20 witness: the cross evaluator has just recorded Long while Short
\* stays recorded for the trend strategy and Long for the MACD strategy.
C20_Witness ==
    /\ op = "cross"
    /\ ret = Long
    /\ notified
    /\ ma_cross_signal = Long
    /\ ma_trend_change_signal = Short
    /\ macd_signal = Long
====
